---- MODULE Spec2Model ----
(***************************************************************************)
(* Model of the HR chatbot pipeline of groq_trial2.py and of its two       *)
(* callers (the CLI loop of groq_trial2.py and the chat UI of trial1.py).  *)
(* Text is modelled character by character: a Python str is a sequence of  *)
(* characters, so that sanitize_sql and validate_sql are                   *)
(* computed the way re.sub, str.replace, str.strip, str.lower,             *)
(* str.startswith and re.search compute them.                              *)
(***************************************************************************)
EXTENDS Integers, Sequences, FiniteSets, TLC

\* ------------------------------------------------------------------ bounds
MaxPieces == 3      \* a text given to the gate has at most MaxPieces fragments
MaxReplyPieces == 2 \* a completion in the pipeline has at most so many
MaxRequests == 2    \* requests issued by the callers in one run

\* -------------------------------------------------------------- characters
Lowers == <<"a","b","c","d","e","f","g","h","i","j","k","l","m",
            "n","o","p","q","r","s","t","u","v","w","x","y","z">>
Uppers == <<"A","B","C","D","E","F","G","H","I","J","K","L","M",
            "N","O","P","Q","R","S","T","U","V","W","X","Y","Z">>
Digits == {"0","1","2","3","4","5","6","7","8","9"}
Range(f) == {f[i] : i \in DOMAIN f}

\* str.isspace for the characters str.strip() removes
IsSpace(c) == c \in {" ", "\t", "\n", "\r"}
\* the regex class \w: letters, digits and underscore
WordChars == Range(Lowers) \cup Range(Uppers) \cup Digits \cup {"_"}
IsWordChar(c) == c \in WordChars

\* str.lower() on one character
LowerOf == [c \in Range(Uppers) |->
              Lowers[CHOOSE i \in DOMAIN Uppers : Uppers[i] = c]]
LowerChar(c) == IF c \in DOMAIN LowerOf THEN LowerOf[c] ELSE c
\* str.lower()
lower(s) == [i \in DOMAIN s |-> LowerChar(s[i])]

SetMin(S) == CHOOSE x \in S : \A y \in S : x <= y
SetMax(S) == CHOOSE x \in S : \A y \in S : x >= y
\* str.strip(): drop leading and trailing whitespace
strip(s) ==
  LET keep == {i \in DOMAIN s : ~IsSpace(s[i])}
  IN  IF keep = {} THEN <<>> ELSE SubSeq(s, SetMin(keep), SetMax(keep))
\* str.startswith
startswith(s, p) == Len(s) >= Len(p) /\ SubSeq(s, 1, Len(p)) = p
\* does pattern p (a literal) match s at position i
MatchAt(s, i, p) ==
  /\ i + Len(p) - 1 <= Len(s)
  /\ \A k \in DOMAIN p : s[i + k - 1] = p[k]
\* the same under re.IGNORECASE, for a pattern written in lower case
MatchAtIgnoreCase(s, i, p) ==
  /\ i + Len(p) - 1 <= Len(s)
  /\ \A k \in DOMAIN p : LowerChar(s[i + k - 1]) = p[k]

\* ---------------------------------------------------------------- literals
SELECT == <<"s","e","l","e","c","t">>
\* the backtick character (the lexer of TLA+ has no literal for it)
BT == "backtick"
FENCE == <<BT, BT, BT>>
FENCE_SQL == <<BT, BT, BT, "s", "q", "l">>
\* the alternatives of FORBIDDEN_SQL_PATTERN
FORBIDDEN_WORDS ==
  { <<"i","n","s","e","r","t">>, <<"u","p","d","a","t","e">>,
    <<"d","e","l","e","t","e">>, <<"d","r","o","p">>,
    <<"a","l","t","e","r">>, <<"t","r","u","n","c","a","t","e">>,
    <<"e","x","e","c">>, <<"m","e","r","g","e">>,
    <<"c","r","e","a","t","e">> }

\* the regex assertion \b at the gap before position i (1 <= i <= Len(s)+1)
WordBoundary(s, i) ==
  LET before == i > 1 /\ IsWordChar(s[i-1])
      after  == i <= Len(s) /\ IsWordChar(s[i])
  IN  before # after
\* re.search(FORBIDDEN_SQL_PATTERN, s) is not None
FORBIDDEN_SQL_PATTERN(s) ==
  \E i \in DOMAIN s : \E w \in FORBIDDEN_WORDS :
     /\ WordBoundary(s, i)
     /\ MatchAt(s, i, w)
     /\ WordBoundary(s, i + Len(w))

\* re.sub of the fence pattern (FENCE_SQL | FENCE, IGNORECASE): one scan
\* from the left, the first alternative tried first, matches do not overlap
RECURSIVE sub_fence(_, _)
sub_fence(s, i) ==
  IF i > Len(s) THEN <<>>
  ELSE IF MatchAtIgnoreCase(s, i, FENCE_SQL)
       THEN sub_fence(s, i + Len(FENCE_SQL))
  ELSE IF MatchAt(s, i, FENCE) THEN sub_fence(s, i + Len(FENCE))
  ELSE <<s[i]>> \o sub_fence(s, i + 1)
\* sql.replace(BT, "")
replace_backtick(s) == SelectSeq(s, LAMBDA c : c # BT)

\* a plausible slip: trimming before the markers are removed
sanitize_sql_strip_first(sql) == replace_backtick(sub_fence(strip(sql), 1))
\* a plausible slip: the single backticks are left in
sanitize_sql_no_replace(sql) == strip(sub_fence(sql, 1))
sanitize_sql(sql) == strip(replace_backtick(sub_fence(sql, 1)))

OK == "ok"
NotAReadQuery == "Only SELECT queries allowed"
ForbiddenKeyword == "Unsafe SQL detected"
\* slips: the denylist consulted before the prefix; the search made without
\* word boundaries; the search made on the text as written instead of on
\* its lower case
validate_sql_denylist_first(sql) ==
  LET sql_lower == strip(lower(sql))
  IN  IF FORBIDDEN_SQL_PATTERN(sql_lower) THEN ForbiddenKeyword
      ELSE IF ~startswith(sql_lower, SELECT) THEN NotAReadQuery
      ELSE OK
validate_sql_substring(sql) ==
  LET sql_lower == strip(lower(sql))
  IN  IF ~startswith(sql_lower, SELECT) THEN NotAReadQuery
      ELSE IF \E i \in DOMAIN sql_lower : \E w \in FORBIDDEN_WORDS :
                 MatchAt(sql_lower, i, w) THEN ForbiddenKeyword
      ELSE OK
validate_sql_case_sensitive(sql) ==
  LET sql_lower == strip(lower(sql))
  IN  IF ~startswith(sql_lower, SELECT) THEN NotAReadQuery
      ELSE IF FORBIDDEN_SQL_PATTERN(strip(sql)) THEN ForbiddenKeyword
      ELSE OK
\* validate_sql: OK when it returns, otherwise the ValueError's message
validate_sql(sql) ==
  LET sql_lower == strip(lower(sql))
  IN  IF ~startswith(sql_lower, SELECT) THEN NotAReadQuery
      ELSE IF FORBIDDEN_SQL_PATTERN(sql_lower) THEN ForbiddenKeyword
      ELSE OK

\* ------------------------------------------------------------------ inputs
\* texts the completion service may return, or a caller may hand to
\* execute_sql directly: every concatenation of at most MaxPieces fragments,
\* and the statements of the documented scenarios
FencedSelect ==
  <<BT, BT, BT, "s", "q", "l", "\n", "S", "E", "L", "E", "C", "T", " ",
     "N", "a", "m", "e", " ", "F", "R", "O", "M", " ", "d", "b", "o", ".",
     "E", "m", "p", "l", "o", "y", "e", "e", "s", "\n", BT, BT, BT>>
PlainSelect ==
  <<"S", "E", "L", "E", "C", "T", " ", "N", "a", "m", "e", " ", "F", "R",
     "O", "M", " ", "d", "b", "o", ".", "E", "m", "p", "l", "o", "y", "e",
     "e", "s">>
SelectThenDrop ==
  <<"S", "E", "L", "E", "C", "T", " ", "*", " ", "F", "R", "O", "M", " ",
     "d", "b", "o", ".", "E", "m", "p", "l", "o", "y", "e", "e", "s", ";",
     " ", "D", "R", "O", "P", " ", "T", "A", "B", "L", "E", " ", "d", "b",
     "o", ".", "E", "m", "p", "l", "o", "y", "e", "e", "s">>
UpdateSalary ==
  <<"U", "P", "D", "A", "T", "E", " ", "d", "b", "o", ".", "E", "m", "p",
     "l", "o", "y", "e", "e", "s", " ", "S", "E", "T", " ", "S", "a", "l",
     "a", "r", "y", " ", "=", " ", "0">>
SelectCreatedDate ==
  <<"s", "e", "l", "e", "c", "t", " ", "c", "r", "e", "a", "t", "e", "d",
     "D", "a", "t", "e", " ", "f", "r", "o", "m", " ", "t">>
Fragments ==
  { <<"S", "e", "l", "e", "c", "t">>,
    <<" ">>,
    <<"\n">>,
    <<"D", "r", "o", "p">>,
    <<"e", "x", "e", "c">>,
    <<"_">>,
    <<";">>,
    <<BT>>,
    <<BT, BT, BT>>,
    <<"S", "Q", "L">> }
Scenarios ==
  {FencedSelect, PlainSelect, SelectThenDrop, UpdateSalary, SelectCreatedDate}
RECURSIVE Compose(_)
Compose(n) ==
  IF n = 0 THEN {<<>>}
  ELSE LET shorter == Compose(n - 1)
       IN  shorter \cup {p \o f : p \in shorter, f \in Fragments}
Inputs == Compose(MaxPieces) \cup Scenarios
Replies == Compose(MaxReplyPieces) \cup Scenarios

\* --------------------------------------------------------------- operations
NoError == "none"
GenerationError == "GenerationError"
ConnectionError == "ConnectionError"
DatabaseError == "DatabaseError"
\* what the database does with one operation: it serves it, the connection
\* cannot be made, or the engine rejects the statement
DbOutcomes == {"ok", "connect_error", "db_error"}

\* load_schema: conn.close() is reached only when cursor.execute returned
load_schema(db) ==
  IF db = "connect_error"
  THEN [error |-> ConnectionError, connected |-> FALSE, closed |-> FALSE]
  ELSE IF db = "db_error"
  THEN [error |-> DatabaseError, connected |-> TRUE, closed |-> FALSE]
  ELSE [error |-> NoError, connected |-> TRUE, closed |-> TRUE]

\* a slip: the statement is returned as it was inspected, in lower case
generate_sql_lowered(raw) ==
  LET stmt == sanitize_sql(raw)
  IN  [sanitized |-> stmt, verdict |-> validate_sql(stmt),
       sql |-> strip(lower(stmt))]
\* generate_sql from the completion's text on: sanitize, validate, return sql
generate_sql(raw) ==
  LET stmt == sanitize_sql(raw)
  IN  [sanitized |-> stmt, verdict |-> validate_sql(stmt), sql |-> stmt]

\* a slip: the executor trusts its caller and does not validate again
execute_sql_unchecked(stmt, db) ==
  IF db = "connect_error"
  THEN [verdict |-> OK, error |-> ConnectionError, connected |-> FALSE,
        executed |-> <<>>, closed |-> FALSE]
  ELSE IF db = "db_error"
  THEN [verdict |-> OK, error |-> DatabaseError, connected |-> TRUE,
        executed |-> <<stmt>>, closed |-> FALSE]
  ELSE [verdict |-> OK, error |-> NoError, connected |-> TRUE,
        executed |-> <<stmt>>, closed |-> TRUE]
\* execute_sql: validate, connect, cursor.execute(sql), fetch, close
execute_sql(stmt, db) ==
  LET v == validate_sql(stmt)
  IN  IF v # OK
      THEN [verdict |-> v, error |-> v, connected |-> FALSE,
            executed |-> <<>>, closed |-> FALSE]
      ELSE IF db = "connect_error"
      THEN [verdict |-> v, error |-> ConnectionError, connected |-> FALSE,
            executed |-> <<>>, closed |-> FALSE]
      ELSE IF db = "db_error"
      THEN [verdict |-> v, error |-> DatabaseError, connected |-> TRUE,
            executed |-> <<stmt>>, closed |-> FALSE]
      ELSE [verdict |-> v, error |-> NoError, connected |-> TRUE,
            executed |-> <<stmt>>, closed |-> TRUE]

\* a slip: a failed execution is swallowed and summarised as an empty result
ask_hr_bot_swallow(stage, err) ==
  IF err # NoError /\ stage # "execute_sql" THEN "raised"
  ELSE CASE stage = "load_schema" -> "generate_sql"
         [] stage = "generate_sql" -> "execute_sql"
         [] stage = "execute_sql" -> "generate_answer"
         [] stage = "generate_answer" -> "returned"
\* ask_hr_bot: the statement that runs after stage, an exception of the
\* stage leaving the function at once
ask_hr_bot(stage, err) ==
  IF err # NoError THEN "raised"
  ELSE CASE stage = "load_schema" -> "generate_sql"
         [] stage = "generate_sql" -> "execute_sql"
         [] stage = "execute_sql" -> "generate_answer"
         [] stage = "generate_answer" -> "returned"

\* -------------------------------------------------------------------- state
VARIABLES
  caller,      \* the program that runs: the CLI loop ("cli"), the chat UI
               \* ("ui"), or code calling execute_sql itself ("direct")
  pc,          \* "idle", the stage to run next, "returned" or "raised"
  raw_sql,     \* generate_sql: the completion's text
  sanitized,   \* results of the sanitize_sql calls of this request
  sql,         \* the statement generate_sql returned / execute_sql was given
  checked,     \* arguments of the validate_sql calls of this request
  verdicts,    \* their outcomes, in the same order
  executed,    \* statements handed to cursor.execute for the user query
  connects,    \* operations of this request that opened a connection
  openConns,   \* connections opened and not closed
  stages,      \* stages of ask_hr_bot begun in this request
  error,       \* the exception raised in this request
  result,      \* the dict ask_hr_bot returned (at most one)
  messages,    \* st.session_state.messages of the chat UI
  printed,     \* what the CLI loop printed for its latest request
  requests,    \* requests issued so far
  cliRunning   \* the CLI loop has not left its while loop
vars == <<caller, pc, raw_sql, sanitized, sql, checked, verdicts, executed,
          connects, openConns, stages, error, result, messages, printed,
          requests, cliRunning>>
request == <<raw_sql, sanitized, sql, checked, verdicts, executed, connects,
             stages, error, result>>

Init ==
  /\ caller \in {"cli", "ui", "direct"} /\ pc = "idle"
  /\ raw_sql = <<>> /\ sanitized = <<>> /\ sql = <<>>
  /\ checked = <<>> /\ verdicts = <<>>
  /\ executed = <<>> /\ connects = <<>>
  /\ openConns = 0
  /\ stages = <<>> /\ error = NoError /\ result = <<>>
  /\ messages = <<>> /\ printed = <<>>
  /\ requests = 0
  /\ cliRunning = (caller = "cli")

\* the locals of a request are gone once its caller is done with it
Forget ==
  /\ raw_sql' = <<>> /\ sanitized' = <<>> /\ sql' = <<>>
  /\ checked' = <<>> /\ verdicts' = <<>>
  /\ executed' = <<>> /\ connects' = <<>>
  /\ stages' = <<>> /\ error' = NoError /\ result' = <<>>

\* CLI loop: a question is read and ask_hr_bot is called
CliAsk ==
  /\ caller = "cli" /\ pc = "idle" /\ cliRunning /\ requests < MaxRequests
  /\ pc' = "load_schema"
  /\ printed' = <<>>
  /\ requests' = requests + 1
  /\ UNCHANGED <<caller, request, openConns, messages, cliRunning>>

\* CLI loop: "exit" or "quit" is read
CliQuit ==
  /\ caller = "cli" /\ pc = "idle" /\ cliRunning
  /\ cliRunning' = FALSE
  /\ UNCHANGED <<caller, pc, request, openConns, messages, printed, requests>>

\* a slip: no except clause, the exception ends the loop unreported
CliPrint_uncaught ==
  /\ caller = "cli" /\ pc \in {"returned", "raised"}
  /\ printed' = IF pc = "returned" THEN <<"sql", "answer">> ELSE <<>>
  /\ cliRunning' = (pc = "returned")
  /\ pc' = "idle"
  /\ Forget
  /\ UNCHANGED <<caller, openConns, messages, requests>>
\* CLI loop: the SQL and the answer are printed, or the except clause
\* prints the error; the loop goes on
CliPrint ==
  /\ caller = "cli" /\ pc \in {"returned", "raised"}
  /\ printed' = IF pc = "returned" THEN <<"sql", "answer">> ELSE <<"error">>
  /\ pc' = "idle"
  /\ Forget
  /\ UNCHANGED <<caller, openConns, messages, requests, cliRunning>>

\* chat UI: an input is submitted, the user message is appended and
\* ask_hr_bot is called
UiSubmit ==
  /\ caller = "ui" /\ pc = "idle" /\ requests < MaxRequests
  /\ messages' = Append(messages, [role |-> "user", content |-> "question"])
  /\ pc' = "load_schema"
  /\ requests' = requests + 1
  /\ UNCHANGED <<caller, request, openConns, printed, cliRunning>>

\* chat UI: the answer, or the text of the caught error, is rendered and
\* appended as the assistant message
UiRespond ==
  /\ caller = "ui" /\ pc \in {"returned", "raised"}
  /\ messages' = Append(messages,
        [role |-> "assistant",
         content |-> IF pc = "returned" THEN "answer" ELSE "error"])
  /\ pc' = "idle"
  /\ Forget
  /\ UNCHANGED <<caller, openConns, printed, requests, cliRunning>>

\* execute_sql is called on its own with any text
DirectCall ==
  /\ caller = "direct" /\ pc = "idle" /\ requests < MaxRequests
  /\ \E s \in Replies : sql' = s
  /\ pc' = "execute_sql"
  /\ requests' = requests + 1
  /\ UNCHANGED <<caller, raw_sql, sanitized, checked, verdicts, executed,
                 connects, stages, error, result, openConns, messages, printed,
                 cliRunning>>

\* the direct call of execute_sql has returned or raised
DirectDone ==
  /\ caller = "direct" /\ pc \in {"returned", "raised"}
  /\ pc' = "idle"
  /\ Forget
  /\ UNCHANGED <<caller, openConns, messages, printed, requests, cliRunning>>

\* ask_hr_bot: schema = load_schema()
LoadSchema ==
  /\ pc = "load_schema"
  /\ \E db \in DbOutcomes :
       LET r == load_schema(db)
       IN  /\ connects' = IF r.connected THEN Append(connects, "load_schema")
                          ELSE connects
           /\ openConns' = IF r.connected /\ ~r.closed THEN openConns + 1
                           ELSE openConns
           /\ error' = r.error
           /\ pc' = ask_hr_bot("load_schema", r.error)
  /\ stages' = Append(stages, "load_schema")
  /\ UNCHANGED <<caller, raw_sql, sanitized, sql, checked, verdicts, executed,
                 result, messages, printed, requests, cliRunning>>

\* ask_hr_bot: sql = generate_sql(question, schema); the completion call
\* fails
GenerateSqlFails ==
  /\ pc = "generate_sql"
  /\ stages' = Append(stages, "generation")
  /\ error' = GenerationError
  /\ pc' = ask_hr_bot("generate_sql", GenerationError)
  /\ UNCHANGED <<caller, raw_sql, sanitized, sql, checked, verdicts, executed,
                 connects, openConns, result, messages, printed, requests,
                 cliRunning>>

\* ask_hr_bot: sql = generate_sql(question, schema); the completion call
\* returns some text, which is sanitized and validated
GenerateSql ==
  /\ pc = "generate_sql"
  /\ \E raw \in Replies :
       LET g == generate_sql(raw)
       IN  /\ raw_sql' = raw
           /\ sanitized' = Append(sanitized, g.sanitized)
           /\ checked' = Append(checked, g.sanitized)
           /\ verdicts' = Append(verdicts, g.verdict)
           /\ sql' = IF g.verdict = OK THEN g.sql ELSE sql
           /\ error' = IF g.verdict = OK THEN NoError ELSE g.verdict
           /\ pc' = ask_hr_bot("generate_sql",
                               IF g.verdict = OK THEN NoError ELSE g.verdict)
  /\ stages' = stages \o <<"generation", "gating">>
  /\ UNCHANGED <<caller, executed, connects, openConns, result, messages,
                 printed, requests, cliRunning>>

\* data = execute_sql(sql), in ask_hr_bot or called directly
ExecuteSql ==
  /\ pc = "execute_sql"
  /\ \E db \in DbOutcomes :
       LET r == execute_sql(sql, db)
       IN  /\ checked' = Append(checked, sql)
           /\ verdicts' = Append(verdicts, r.verdict)
           /\ executed' = executed \o r.executed
           /\ connects' = IF r.connected THEN Append(connects, "execute_sql")
                          ELSE connects
           /\ openConns' = IF r.connected /\ ~r.closed THEN openConns + 1
                           ELSE openConns
           /\ error' = r.error
           /\ pc' = IF caller = "direct"
                    THEN (IF r.error = NoError THEN "returned" ELSE "raised")
                    ELSE ask_hr_bot("execute_sql", r.error)
  /\ stages' = Append(stages, "execution")
  /\ UNCHANGED <<caller, raw_sql, sanitized, sql, result, messages, printed,
                 requests, cliRunning>>

\* ask_hr_bot: answer = generate_answer(question, data), then the dict of
\* sql, answer and raw_data is returned
GenerateAnswer ==
  /\ pc = "generate_answer"
  /\ \E llm \in {NoError, GenerationError} :
       /\ error' = llm
       /\ pc' = ask_hr_bot("generate_answer", llm)
       /\ result' = IF llm = NoError
                    THEN <<[sql |-> sql, answer |-> "answer",
                            raw_data |-> "rows"]>>
                    ELSE result
  /\ stages' = Append(stages, "summarization")
  /\ UNCHANGED <<caller, raw_sql, sanitized, sql, checked, verdicts, executed,
                 connects, openConns, messages, printed, requests,
                 cliRunning>>

Next ==
  \/ CliAsk \/ CliQuit \/ CliPrint
  \/ UiSubmit \/ UiRespond
  \/ DirectCall \/ DirectDone
  \/ LoadSchema \/ GenerateSqlFails \/ GenerateSql \/ ExecuteSql
  \/ GenerateAnswer

Spec == Init /\ [][Next]_vars

\* ------------------------------------------------- the gate's functions alone
\* sanitize_sql and validate_sql applied to any text: the text is sanitized
\* once, then once more, and the text or its sanitized form is validated
InitGate ==
  /\ caller = "gate" /\ pc = "text"
  /\ raw_sql \in Inputs
  /\ sanitized = <<>> /\ sql = <<>>
  /\ checked = <<>> /\ verdicts = <<>>
  /\ executed = <<>> /\ connects = <<>>
  /\ openConns = 0
  /\ stages = <<>> /\ error = NoError /\ result = <<>>
  /\ messages = <<>> /\ printed = <<>>
  /\ requests = 0
  /\ cliRunning = FALSE
untouched == <<caller, raw_sql, sql, executed, connects, openConns, stages,
               error, result, messages, printed, requests, cliRunning>>

Sanitize ==
  /\ pc = "text"
  /\ sanitized' = <<sanitize_sql(raw_sql)>>
  /\ pc' = "sanitized"
  /\ UNCHANGED <<untouched, checked, verdicts>>

SanitizeAgain ==
  /\ pc = "sanitized"
  /\ sanitized' = Append(sanitized, sanitize_sql(sanitized[1]))
  /\ pc' = "resanitized"
  /\ UNCHANGED <<untouched, checked, verdicts>>

Validate ==
  /\ pc \in {"text", "sanitized"}
  /\ LET text == IF pc = "text" THEN raw_sql ELSE sanitized[1]
     IN  /\ checked' = <<text>>
         /\ verdicts' = <<validate_sql(text)>>
  /\ pc' = "validated"
  /\ UNCHANGED <<untouched, sanitized>>

NextGate == Sanitize \/ SanitizeAgain \/ Validate

SpecGate == InitGate /\ [][NextGate]_vars

\* ------------------------------------------------------------------- claims
\* The properties are stated on the text itself, without the functions of
\* the gate: letters are compared one by one in either case, and a word is
\* whole when neither neighbour is a letter, a digit or an underscore.
SameLetter(c, l) ==
  c = l \/ \E i \in DOMAIN Lowers : Lowers[i] = l /\ Uppers[i] = c
\* word w, in any letter case, occupies positions i .. i+Len(w)-1 of t
OccursAt(t, i, w) ==
  /\ i + Len(w) - 1 <= Len(t)
  /\ \A k \in DOMAIN w : SameLetter(t[i + k - 1], w[k])
StandsAlone(t, i, w) ==
  /\ i = 1 \/ ~IsWordChar(t[i - 1])
  /\ i + Len(w) > Len(t) \/ ~IsWordChar(t[i + Len(w)])
BeginsWithSelect(t) ==
  \E i \in DOMAIN t :
     /\ \A j \in 1..(i - 1) : IsSpace(t[j])
     /\ OccursAt(t, i, SELECT)
HasForbiddenWord(t) ==
  \E w \in FORBIDDEN_WORDS : \E i \in DOMAIN t :
     OccursAt(t, i, w) /\ StandsAlone(t, i, w)
HasForbiddenSubstring(t) ==
  \E w \in FORBIDDEN_WORDS : \E i \in DOMAIN t : OccursAt(t, i, w)
HasFence(t) == \E i \in DOMAIN t : MatchAt(t, i, FENCE)
HasUpperCase(t) == \E i \in DOMAIN t : t[i] \in Range(Uppers)
Rejected == \E j \in DOMAIN verdicts : verdicts[j] # OK
Last(q) == q[Len(q)]

\* C1: a statement handed to cursor.execute for the user query was accepted
\* by validate_sql in the same request, begins with select and has no
\* denylisted whole word; once validate_sql has rejected a statement,
\* nothing is executed and execute_sql opens no connection.
C1_OnlyValidatedStatementsExecuted ==
  /\ \A i \in DOMAIN executed :
        /\ \E j \in DOMAIN checked :
              checked[j] = executed[i] /\ verdicts[j] = OK
        /\ BeginsWithSelect(executed[i])
        /\ ~HasForbiddenWord(executed[i])
  /\ Rejected =>
        /\ executed = <<>>
        /\ \A k \in DOMAIN connects : connects[k] # "execute_sql"
C1_Witness ==
  /\ caller = "ui" /\ raw_sql = FencedSelect
  /\ executed = <<PlainSelect>>
  /\ Last(connects) = "execute_sql"

\* C2: a text that does not begin with select (in any case, leading
\* whitespace ignored) is refused by validate_sql with the message
\* "Only SELECT queries allowed"; so is the UPDATE statement of the scenario.
C2_NotAReadQuery ==
  pc = "validated" =>
    /\ ~BeginsWithSelect(checked[1]) => verdicts[1] = NotAReadQuery
    /\ checked[1] = UpdateSalary => verdicts[1] = NotAReadQuery
C2_Witness ==
  pc = "validated" /\ checked = <<UpdateSalary>> /\ verdicts = <<NotAReadQuery>>

\* C3 as stated: every text with a denylisted whole word is refused with
\* "Unsafe SQL detected".
C3_AlwaysForbiddenKeyword ==
  (pc = "validated" /\ HasForbiddenWord(checked[1]))
     => verdicts[1] = ForbiddenKeyword
\* C3 as amended: a text with a denylisted whole word, in any case, is
\* always refused: with "Unsafe SQL detected" when it begins with select,
\* and with "Only SELECT queries allowed" when it does not.
C3_ForbiddenKeywordAfterSelect ==
  (pc = "validated" /\ HasForbiddenWord(checked[1])) =>
     verdicts[1] = IF BeginsWithSelect(checked[1]) THEN ForbiddenKeyword
                   ELSE NotAReadQuery
C3_Witness ==
  pc = "validated" /\ checked = <<SelectThenDrop>>
  /\ verdicts = <<ForbiddenKeyword>>

\* C4: a text that begins with select and has denylisted keywords only
\* inside longer identifiers (every occurrence touches a letter, a digit or
\* an underscore) is accepted by validate_sql.
C4_SubstringAccepted ==
  ( /\ pc = "validated"
    /\ BeginsWithSelect(checked[1])
    /\ HasForbiddenSubstring(checked[1])
    /\ ~HasForbiddenWord(checked[1]) ) => verdicts[1] = OK
C4_Witness ==
  pc = "validated" /\ checked = <<SelectCreatedDate>> /\ verdicts = <<OK>>

\* C5: the statement ask_hr_bot returns, and the one statement it executed,
\* are the sanitized completion as written: lower-casing left no trace.
C5_StatementUnchanged ==
  \A i \in DOMAIN result :
     /\ result[i].sql = sanitize_sql(raw_sql)
     /\ executed = <<result[i].sql>>
C5_Witness ==
  /\ result # <<>>
  /\ HasUpperCase(result[1].sql)
  /\ result[1].sql # raw_sql
  /\ executed = <<result[1].sql>>

\* C6: sanitize_sql applied to its own result returns that result.
C6_SanitizeIdempotent ==
  Len(sanitized) = 2 => sanitized[2] = sanitized[1]
C6_Witness ==
  /\ Len(sanitized) = 2
  /\ sanitized[1] # raw_sql
  /\ sanitized[1] # <<>>
  /\ HasFence(raw_sql)

\* C7: a result of sanitize_sql has no fence marker, no backtick and no
\* whitespace at either end; the fenced statement of the scenario becomes
\* the bare statement, which validate_sql accepts.
C7_SanitizedClean ==
  /\ \A i \in DOMAIN sanitized :
        LET t == sanitized[i]
        IN  /\ ~HasFence(t)
            /\ \A k \in DOMAIN t : t[k] # BT
            /\ t # <<>> => ~IsSpace(t[1]) /\ ~IsSpace(Last(t))
  /\ (raw_sql = FencedSelect /\ sanitized # <<>>)
        => sanitized[1] = PlainSelect
  /\ (raw_sql = FencedSelect /\ pc = "validated" /\ sanitized # <<>>)
        => verdicts = <<OK>>
C7_Witness ==
  /\ raw_sql = FencedSelect /\ pc = "validated"
  /\ sanitized = <<PlainSelect>> /\ checked = <<PlainSelect>>
  /\ verdicts = <<OK>>

\* C8: in ask_hr_bot the stages begin in the order schema load, generation,
\* gating, execution, summarization, each at most once; after a failure no
\* further stage begins and nothing is returned; a result is returned only
\* when all five stages ran and none failed.
StageOrder ==
  <<"load_schema", "generation", "gating", "execution", "summarization">>
C8_StagesInOrder ==
  caller \in {"cli", "ui"} =>
    /\ Len(stages) <= Len(StageOrder)
    /\ stages = SubSeq(StageOrder, 1, Len(stages))
    /\ error # NoError => pc = "raised" /\ result = <<>>
    /\ pc = "raised" => error # NoError
    /\ result # <<>> =>
          pc = "returned" /\ stages = StageOrder /\ error = NoError
    /\ pc = "returned" => Len(result) = 1
C8_FailsAsAWhole ==
  /\ []C8_StagesInOrder
  /\ [][(caller \in {"cli", "ui"} /\ error # NoError)
          => (stages' \in {stages, <<>>} /\ result' = <<>>)]_vars
C8_Witness ==
  /\ caller = "cli" /\ pc = "raised" /\ error = DatabaseError
  /\ stages = SubSeq(StageOrder, 1, 4)
  /\ result = <<>>

\* C9: a failed request is handed to its caller, which surfaces exactly one
\* message and starts nothing again: the CLI loop prints one error line and
\* is back at its prompt, still running; the chat UI has one user message
\* followed by one assistant message per submitted input, failed or not.
Alternating(m) ==
  \A i \in DOMAIN m :
     m[i].role = IF i % 2 = 1 THEN "user" ELSE "assistant"
C9_Messages ==
  /\ Alternating(messages)
  /\ caller = "ui" =>
        Len(messages) = IF pc = "idle" THEN 2 * requests ELSE 2 * requests - 1
  /\ caller # "ui" => messages = <<>>
C9_OneMessagePerFailure ==
  /\ []C9_Messages
  /\ [][(caller = "cli" /\ pc = "raised") =>
          /\ pc' = "idle" /\ cliRunning'
          /\ printed' = <<"error">>
          /\ requests' = requests]_vars
  /\ [][(caller = "ui" /\ pc \in {"raised", "returned"}) =>
          /\ pc' = "idle"
          /\ messages' = Append(messages,
                [role |-> "assistant",
                 content |-> IF pc = "raised" THEN "error" ELSE "answer"])
          /\ requests' = requests]_vars
  /\ [][pc = "raised" => pc' = "idle"]_vars
C9_Witness ==
  /\ caller = "cli" /\ pc = "idle" /\ requests = 2
  /\ cliRunning /\ printed = <<"error">>

\* C10: no connection opened by load_schema or execute_sql is still open
\* once the operation has returned or raised.
C10_AllConnectionsClosed == openConns = 0
====
